---------------------------- MODULE Spec2Model ----------------------------
(***************************************************************************)
(* Model of src/download_data.py: the synthetic OHLC series generator      *)
(* (create_sample_data), the fetch dispatcher (fetch_data_from_api and its  *)
(* three stubs), the CSV exporter (download_financial_data) and the batch   *)
(* driver (download_all_assets).                                            *)
(*                                                                         *)
(* Representation choices                                                  *)
(*  - A date string 'YYYY-MM-DD' is the tuple <<Y, M, D>> of its three      *)
(*    numeric fields; strptime validates them against the calendar.         *)
(*  - A point in time is a whole number of minutes since 1970-01-01 00:00.  *)
(*    The code's epoch-millisecond integer is 60000 times that number       *)
(*    (every generated timestamp is a whole minute), which does not fit     *)
(*    TLC's 32-bit integers.                                                *)
(*  - A float64 is the natural number N with value N * 2^-56, held as a     *)
(*    little-endian sequence of base-2^14 limbs.  Every float64 >= 2^-4     *)
(*    is such a multiple; arithmetic rounds to 53 significant bits,         *)
(*    ties to even, as IEEE 754 does.                                       *)
(*  - A DataFrame is the sequence of its rows.                              *)
(***************************************************************************)
EXTENDS Integers, Sequences, FiniteSets, TLC

(***************************************************************************)
(* Bounds of the model.                                                    *)
(***************************************************************************)
\* The generator is exercised on dates FirstDay .. FirstDay + MaxDaySpan.
MaxDaySpan == 1
\* Number of download_financial_data calls in one behaviour of Spec.
MaxCalls == 2
\* Length in days of the batch driver's date window (see batch_end_date).
BatchWindowDays == 1

(***************************************************************************)
(* Natural numbers of arbitrary size, as little-endian limb sequences      *)
(* without leading zero limbs (so equal numbers are equal sequences).      *)
(***************************************************************************)
LimbBits == 7 + 7
LimbBase == 2^LimbBits

RECURSIVE BNorm(_)
BNorm(a) ==
    IF a = <<>> THEN <<>>
    ELSE IF a[Len(a)] = 0 THEN BNorm(SubSeq(a, 1, Len(a) - 1))
    ELSE a

RECURSIVE BFromInt(_)
BFromInt(n) ==
    IF n = 0 THEN <<>> ELSE <<n % LimbBase>> \o BFromInt(n \div LimbBase)

RECURSIVE BAddC(_, _, _)
BAddC(a, b, c) ==
    IF a = <<>> /\ b = <<>> THEN BFromInt(c)
    ELSE LET x == (IF a = <<>> THEN 0 ELSE Head(a))
                  + (IF b = <<>> THEN 0 ELSE Head(b)) + c
         IN  <<x % LimbBase>>
               \o BAddC(IF a = <<>> THEN <<>> ELSE Tail(a),
                        IF b = <<>> THEN <<>> ELSE Tail(b),
                        x \div LimbBase)

BAdd(a, b) == BAddC(a, b, 0)

\* a - b for a >= b; c is the borrow.
RECURSIVE BSubC(_, _, _)
BSubC(a, b, c) ==
    IF a = <<>> THEN <<>>
    ELSE LET x == Head(a) - (IF b = <<>> THEN 0 ELSE Head(b)) - c
         IN  <<x % LimbBase>>
               \o BSubC(Tail(a),
                        IF b = <<>> THEN <<>> ELSE Tail(b),
                        IF x < 0 THEN 1 ELSE 0)

BSub(a, b) == BNorm(BSubC(a, b, 0))

\* a * m + c for a small multiplier m (m <= 2^16).
RECURSIVE BMulC(_, _, _)
BMulC(a, m, c) ==
    IF a = <<>> THEN BFromInt(c)
    ELSE LET x == Head(a) * m + c
         IN  <<x % LimbBase>> \o BMulC(Tail(a), m, x \div LimbBase)

BMulSmall(a, m) == BNorm(BMulC(a, m, 0))

\* a < b
RECURSIVE BLess(_, _)
BLess(a, b) ==
    IF Len(a) # Len(b) THEN Len(a) < Len(b)
    ELSE IF a = <<>> THEN FALSE
    ELSE IF a[Len(a)] # b[Len(b)] THEN a[Len(a)] < b[Len(b)]
    ELSE BLess(SubSeq(a, 1, Len(a) - 1), SubSeq(b, 1, Len(b) - 1))

BLeq(a, b) == ~BLess(b, a)

\* Quotient and remainder of (r * LimbBase^Len(a) + a) by d, 0 <= r < d <= LimbBase.
RECURSIVE BDivRem(_, _, _)
BDivRem(a, d, r) ==
    IF a = <<>> THEN [q |-> <<>>, r |-> r]
    ELSE LET n    == Len(a)
             x    == r * LimbBase + a[n]
             rest == BDivRem(SubSeq(a, 1, n - 1), d, x % d)
         IN  [q |-> Append(rest.q, x \div d), r |-> rest.r]

RECURSIVE IntBitLen(_)
IntBitLen(n) == IF n = 0 THEN 0 ELSE 1 + IntBitLen(n \div 2)

BBitLen(a) ==
    IF a = <<>> THEN 0 ELSE (Len(a) - 1) * LimbBits + IntBitLen(a[Len(a)])

BIsOdd(a) == a # <<>> /\ a[1] % 2 = 1

\* a * 2^s
RECURSIVE BShl(_, _)
BShl(a, s) ==
    IF s = 0 THEN a
    ELSE LET t == IF s > LimbBits THEN LimbBits ELSE s
         IN  BShl(BMulSmall(a, 2^t), s - t)

\* a \div 2^s, and whether any of the bits shifted out was set.
RECURSIVE BShr(_, _)
BShr(a, s) ==
    IF s = 0 THEN [q |-> a, sticky |-> FALSE]
    ELSE LET t    == IF s > LimbBits THEN LimbBits ELSE s
             dr   == BDivRem(a, 2^t, 0)
             rest == BShr(BNorm(dr.q), s - t)
         IN  [q |-> rest.q, sticky |-> rest.sticky \/ dr.r # 0]

(***************************************************************************)
(* float64 arithmetic on non-negative values, in units of 2^-56.           *)
(***************************************************************************)
MantissaBits == 26 + 27

\* Round to MantissaBits significant bits, to nearest, ties to even: the
\* s = BBitLen(a) - MantissaBits low bits are dropped, and the rest is bumped
\* when they exceed half a unit, or equal it and the kept part is odd.
RoundShift(a, s) ==
    LET lo  == BShr(a, s - 1)
        g   == BDivRem(lo.q, 2, 0)
        q   == BNorm(g.q)
        up  == g.r = 1 /\ (lo.sticky \/ BIsOdd(q))
    IN  BShl(IF up THEN BAdd(q, <<1>>) ELSE q, s)

\* The same when the dropped bits lie in the lowest limb (s < LimbBits).
RoundLow(a, s) ==
    LET unit == 2^s
        r    == a[1] % unit
        odd  == (a[1] \div unit) % 2 = 1
        up   == 2 * r > unit \/ (2 * r = unit /\ odd)
        kept == [a EXCEPT ![1] = a[1] - r]
    IN  IF up THEN BAdd(kept, <<unit>>) ELSE kept

Round53(a) ==
    LET s == BBitLen(a) - MantissaBits
    IN  IF s <= 0 THEN a
        ELSE IF s < LimbBits THEN RoundLow(a, s)
        ELSE RoundShift(a, s)

\* The unit in the last place of a (a >= 2^-4).
Ulp(a) == BShl(<<1>>, BBitLen(a) - MantissaBits)

FAdd(a, b) == Round53(BAdd(a, b))
\* a - b for a >= b
FSub(a, b) == Round53(BSub(a, b))
\* float(i) * f for an integer 0 <= i <= 2^16
FMulInt(i, f) == Round53(BMulSmall(f, i))

\* The literals of create_sample_data.
F0_1 == <<6554, 9830, 6553, 1638>>          \* 0.1 = 0x1999999999999A * 2^-56
F0_2 == <<13108, 3276, 13107, 3276>>        \* 0.2 = 2 * 0.1
F0_5 == <<0, 0, 0, 8192>>                   \* 0.5 = 2^55 * 2^-56
F1_0 == <<0, 0, 0, 0, 1>>                   \* 1.0 = 2^56 * 2^-56
F100 == <<0, 0, 0, 0, 100>>                 \* 100

(***************************************************************************)
(* Outcome of a call: a returned value or a propagated exception.          *)
(***************************************************************************)
\* kind is "ok" (value returned), "none" (None returned), "raised" (value is
\* the exception that left the call) or "pending" (no call made yet).
Ok(v) == [kind |-> "ok", value |-> v]
ReturnNone == [kind |-> "none", value |-> <<>>]
Raise(e) == [kind |-> "raised", value |-> e]
Raised(r) == r.kind = "raised"
\* Python's None, as an argument.
None == "None"

\* F applied to the value of v, which is computed once.
Bind(v, F(_)) == CHOOSE r \in {F(x) : x \in {v}} : TRUE

(***************************************************************************)
(* The proleptic Gregorian calendar of datetime.                           *)
(***************************************************************************)
MinutesPerDay == 24 * 60

IsLeap(y) == (y % 4 = 0 /\ y % 100 # 0) \/ y % 400 = 0

DaysInMonth(y, m) ==
    IF m = 2 THEN (IF IsLeap(y) THEN 29 ELSE 28)
    ELSE IF m \in {4, 6, 9, 11} THEN 30 ELSE 31

\* Days from 1970-01-01 to the date y-m-d.
DaysFromCivil(y, m, d) ==
    LET yy  == IF m <= 2 THEN y - 1 ELSE y
        era == yy \div 400
        yoe == yy - era * 400
        mp  == IF m > 2 THEN m - 3 ELSE m + 9
        doy == (153 * mp + 2) \div 5 + d - 1
        doe == yoe * 365 + yoe \div 4 - yoe \div 100 + doy
    IN  era * 146097 + doe - 719468

\* The date <<y, m, d>> that lies z days after 1970-01-01.
CivilFromDays(z) ==
    LET zz  == z + 719468
        era == zz \div 146097
        doe == zz - era * 146097
        yoe == (doe - doe \div 1460 + doe \div 36524 - doe \div 146096) \div 365
        doy == doe - (365 * yoe + yoe \div 4 - yoe \div 100)
        mp  == (5 * doy + 2) \div 153
        d   == doy - (153 * mp + 2) \div 5 + 1
        m   == IF mp < 10 THEN mp + 3 ELSE mp - 9
        y   == yoe + era * 400
    IN  <<IF m <= 2 THEN y + 1 ELSE y, m, d>>

\* datetime.strptime(s, '%Y-%m-%d'): midnight of the date, in minutes since
\* the epoch, or ValueError when the fields name no calendar date.
strptime(s) ==
    IF /\ Len(s) = 3
       /\ s[1] \in 1..9999
       /\ s[2] \in 1..12
       /\ s[3] \in 1..DaysInMonth(s[1], s[2])
    THEN Ok(DaysFromCivil(s[1], s[2], s[3]) * MinutesPerDay)
    ELSE Raise("ValueError")

Pad2(n) == IF n < 10 THEN "0" \o ToString(n) ELSE ToString(n)

Pad4(n) ==
    IF n < 10 THEN "000" \o ToString(n)
    ELSE IF n < 100 THEN "00" \o ToString(n)
    ELSE IF n < 1000 THEN "0" \o ToString(n)
    ELSE ToString(n)

\* pd.to_datetime(ts, unit='ms') followed by strftime('%Y-%m-%d %H:%M').
strftime(ts) ==
    LET date == CivilFromDays(ts \div MinutesPerDay)
        tod  == ts % MinutesPerDay
    IN  Pad4(date[1]) \o "-" \o Pad2(date[2]) \o "-" \o Pad2(date[3])
          \o " " \o Pad2(tod \div 60) \o ":" \o Pad2(tod % 60)

(***************************************************************************)
(* create_sample_data                                                      *)
(***************************************************************************)
freq_map ==
    [r \in {"1min", "5min", "15min", "30min", "1H", "1D"} |-> r]

\* Variant: the default is dropped and the first frequency stands in.
DictGetNoDefault(d, key, default) ==
    IF key \in DOMAIN d THEN d[key] ELSE "1min"

\* dict.get(key, default)
DictGet(d, key, default) == IF key \in DOMAIN d THEN d[key] ELSE default

\* The step, in minutes, that pandas gives a frequency string.
FreqMinutes(freq) ==
    CASE freq = "1min"  -> 1
      [] freq = "5min"  -> 5
      [] freq = "15min" -> 15
      [] freq = "30min" -> 30
      [] freq = "1H"    -> 60
      [] freq = "1D"    -> MinutesPerDay

\* Variant: the end of the range is exclusive.
DateRangeOpenEnd(start, end, freq) ==
    LET step == FreqMinutes(freq)
        n    == IF end <= start THEN 0 ELSE (end - start - 1) \div step + 1
    IN  [k \in 1..n |-> start + (k - 1) * step]

\* pd.date_range(start, end, freq): start, start + step, ... while <= end.
date_range(start, end, freq) ==
    LET step == FreqMinutes(freq)
        n    == IF end < start THEN 0 ELSE (end - start) \div step + 1
    IN  [k \in 1..n |-> start + (k - 1) * step]

\* One element of prices = 100 + pd.Series(range(n)) * 0.1
Price(i) == FAdd(F100, FMulInt(i, F0_1))

\* Variant: the high is offset like the close.
HighAsClose(p) == FAdd(p, F0_2)

High(p) == FAdd(p, F0_5)
Low(p) == FSub(p, F0_5)
Close(p) == FAdd(p, F0_2)

\* The row of the DataFrame at 0-based index i, with timestamp ts.
SampleRow(ts, i) ==
    Bind(Price(i), LAMBDA p :
        [timestamp |-> ts, open |-> p, high |-> High(p), low |-> Low(p),
         close |-> Close(p)])

create_sample_data(sd, ed, resolution) ==
    LET start == strptime(sd)
        end   == strptime(ed)
    IN  IF Raised(start) THEN start
        ELSE IF Raised(end) THEN end
        ELSE LET freq == DictGet(freq_map, resolution, "1D")
             IN  Bind(date_range(start.value, end.value, freq),
                      LAMBDA dr :
                        Ok([k \in 1..Len(dr) |-> SampleRow(dr[k], k - 1)]))

(***************************************************************************)
(* fetch_data_from_api and the three stubs                                 *)
(***************************************************************************)
resolution_map ==
    [s \in {"alphavantage", "polygon"} |->
       IF s = "alphavantage"
       THEN [r \in {"1min", "5min", "15min", "30min", "1H", "1D"} |->
               CASE r = "1H" -> "60min" [] r = "1D" -> "daily" [] OTHER -> r]
       ELSE [r \in {"1min", "5min", "15min", "30min", "1H", "1D"} |->
               CASE r = "1min"  -> "minute"
                 [] r = "5min"  -> "5minute"
                 [] r = "15min" -> "15minute"
                 [] r = "30min" -> "30minute"
                 [] r = "1H"    -> "hour"
                 [] r = "1D"    -> "day"]]

fetch_alphavantage(instrument, resolution, sd, ed, api_key, res_map) ==
    create_sample_data(sd, ed, resolution)

\* Variant: the provider's name of the resolution is handed on.
FetchPolygonMapped(instrument, resolution, sd, ed, api_key, res_map) ==
    create_sample_data(sd, ed,
                       DictGet(res_map["polygon"], resolution, resolution))

fetch_polygon(instrument, resolution, sd, ed, api_key, res_map) ==
    create_sample_data(sd, ed, resolution)

fetch_finnhub(instrument, resolution, sd, ed, api_key) ==
    create_sample_data(sd, ed, resolution)

\* The body of the try block.
FetchTry(instrument, resolution, sd, ed, data_source, api_key) ==
    IF data_source = "alphavantage"
    THEN fetch_alphavantage(instrument, resolution, sd, ed, api_key,
                            resolution_map)
    ELSE IF data_source = "polygon"
    THEN fetch_polygon(instrument, resolution, sd, ed, api_key,
                       resolution_map)
    ELSE IF data_source = "finnhub"
    THEN fetch_finnhub(instrument, resolution, sd, ed, api_key)
    ELSE create_sample_data(sd, ed, resolution)

\* The except clause runs create_sample_data again; what that call raises
\* leaves fetch_data_from_api.
fetch_data_from_api(instrument, resolution, sd, ed, data_source, api_key) ==
    Bind(FetchTry(instrument, resolution, sd, ed, data_source, api_key),
         LAMBDA tried :
           IF Raised(tried) THEN create_sample_data(sd, ed, resolution)
           ELSE tried)


(***************************************************************************)
(* download_financial_data                                                 *)
(***************************************************************************)
\* os.path.join(data_dir, filename) for a relative filename.
os_path_join(data_dir, filename) == data_dir \o "/" \o filename

\* Variant: the resolution is left out of the name.
FilenameNoResolution(instrument, resolution) == instrument \o ".csv"

\* f"{instrument}_{resolution}.csv"
Filename(instrument, resolution) == instrument \o "_" \o resolution \o ".csv"

CsvHeader == <<"timestamp", "open", "high", "low", "close">>

\* data['timestamp'] = pd.to_datetime(...).dt.strftime('%Y-%m-%d %H:%M')
FormatTimestamps(data) ==
    Bind(data, LAMBDA df :
        [k \in 1..Len(df) |->
           [df[k] EXCEPT !.timestamp = strftime(df[k].timestamp)]])

\* Variant: the file is opened for appending (mode='a', header=False).
ToCsvAppend(fs, filepath, data) ==
    Bind([header |-> CsvHeader,
          rows   |-> IF filepath \in DOMAIN fs
                     THEN fs[filepath].rows \o data ELSE data],
         LAMBDA written :
           [p \in DOMAIN fs \cup {filepath} |->
              IF p = filepath THEN written ELSE fs[p]])

\* data.to_csv(filepath, index=False): the file system fs with the file at
\* filepath created or truncated and the header and the rows written.
to_csv(fs, filepath, data) ==
    Bind([header |-> CsvHeader, rows |-> data], LAMBDA written :
        [p \in DOMAIN fs \cup {filepath} |->
           IF p = filepath THEN written ELSE fs[p]])

\* Variant: only "data is None" is tested, so an empty series is exported.
DownloadNoEmptyTest(fs, ds, instrument, resolution, sd, ed, data_source, api_key, data_dir) ==
    LET made == ds \cup {data_dir}
    IN  Bind(fetch_data_from_api(instrument, resolution, sd, ed, data_source,
                                 api_key),
             LAMBDA data :
               IF Raised(data)
               THEN [files |-> fs, dirs |-> made, out |-> data]
               ELSE IF data.kind = "none"
               THEN [files |-> fs, dirs |-> made, out |-> ReturnNone]
               ELSE LET filepath ==
                            os_path_join(data_dir,
                                         Filename(instrument, resolution))
                    IN  [files |-> to_csv(fs, filepath,
                                          FormatTimestamps(data.value)),
                         dirs  |-> made,
                         out   |-> Ok(filepath)])

\* The file system and the directories after the call, and its outcome.
download_financial_data(fs, ds, instrument, resolution, sd, ed, data_source, api_key, data_dir) ==
    LET made == ds \cup {data_dir}
    IN  Bind(fetch_data_from_api(instrument, resolution, sd, ed, data_source,
                                 api_key),
             LAMBDA data :
               IF Raised(data)
               THEN [files |-> fs, dirs |-> made, out |-> data]
               ELSE IF data.kind = "none" \/ Len(data.value) = 0
               THEN [files |-> fs, dirs |-> made, out |-> ReturnNone]
               ELSE LET filepath ==
                            os_path_join(data_dir,
                                         Filename(instrument, resolution))
                    IN  [files |-> to_csv(fs, filepath,
                                          FormatTimestamps(data.value)),
                         dirs  |-> made,
                         out   |-> Ok(filepath)])

(***************************************************************************)
(* download_all_assets                                                     *)
(***************************************************************************)
instruments == <<"EURUSD", "XAUUSD", "US30">>
resolutions == <<"1min", "5min", "15min", "30min", "1H">>

\* start_date = '2025-01-01'
batch_start_date == <<2025, 1, 1>>
\* end_date = '2025-09-30' in the code, 272 days after start_date.  The
\* model ends the window BatchWindowDays after start_date: the length of a
\* series is linear in the window and the batch driver never looks at it.
batch_end_date ==
    CivilFromDays(DaysFromCivil(batch_start_date[1], batch_start_date[2],
                                batch_start_date[3]) + BatchWindowDays)

(***************************************************************************)
(* State                                                                   *)
(***************************************************************************)
VARIABLES
    args,       \* the arguments of the latest call
    result,     \* its outcome, NoResult while there is none
    files,      \* the file system: path -> [header, rows]
    dirs,       \* the directories that exist
    history,    \* path -> the arguments of the exports written to it, in order
    ncalls,     \* number of download_financial_data calls made from outside
    pc,         \* download_all_assets: "idle", "loop" or "done"
    bi,         \* download_all_assets: index of inst in instruments
    bj,         \* download_all_assets: index of res in resolutions
    all_files   \* download_all_assets: the list all_files

vars == <<args, result, files, dirs, history, ncalls, pc, bi, bj, all_files>>

NoResult == [kind |-> "pending", value |-> <<>>]
NoFiles == [p \in {} |-> 0]

Args(fn, instrument, resolution, sd, ed, data_source, api_key, data_dir) ==
    [fn |-> fn, instrument |-> instrument, resolution |-> resolution,
     sd |-> sd, ed |-> ed, data_source |-> data_source, api_key |-> api_key,
     data_dir |-> data_dir]

NoArgs == Args("none", "", "", <<>>, <<>>, "", None, "")

\* The path a download with arguments a writes to.
TargetPath(a) == os_path_join(a.data_dir, Filename(a.instrument, a.resolution))

\* history after a download with arguments a and outcome out.
Recorded(h, a, out) ==
    IF out.kind # "ok" THEN h
    ELSE [p \in DOMAIN h \cup {out.value} |->
            IF p = out.value
            THEN (IF p \in DOMAIN h THEN Append(h[p], a) ELSE <<a>>)
            ELSE h[p]]

(***************************************************************************)
(* Inputs                                                                  *)
(***************************************************************************)
FirstDay == DaysFromCivil(2024, 12, 31)
ValidDates == {CivilFromDays(FirstDay + k) : k \in 0..MaxDaySpan}
\* 30 February: a well-formed string that names no date.
BadDate == <<2025, 2, 30>>
Recognized == {"1min", "5min", "15min", "30min", "1H", "1D"}
Resolutions == Recognized \cup {"1W"}
KnownSources == {"alphavantage", "polygon", "finnhub"}
Sources == KnownSources \cup {"yahoo"}
DataDirs == {"../data", "out"}

(***************************************************************************)
(* SpecGen: one call of create_sample_data, fetch_data_from_api or         *)
(* download_financial_data on arguments drawn by Init.                      *)
(***************************************************************************)
InitGen ==
    /\ \E r \in Resolutions, sd \in ValidDates \cup {BadDate},
          ed \in ValidDates \cup {BadDate} :
         args = Args("none", "EURUSD", r, sd, ed, "", None, "../data")
    /\ result = NoResult
    /\ files = NoFiles
    /\ dirs = {}
    /\ history = NoFiles
    /\ ncalls = 0
    /\ pc = "idle"
    /\ bi = 1
    /\ bj = 1
    /\ all_files = <<>>

GenCreate ==
    /\ args.fn = "none"
    /\ args' = [args EXCEPT !.fn = "create_sample_data"]
    /\ result' = create_sample_data(args.sd, args.ed, args.resolution)
    /\ UNCHANGED <<files, dirs, history, ncalls, pc, bi, bj, all_files>>

GenFetch ==
    /\ args.fn = "none"
    /\ \E src \in Sources :
         /\ args' = [args EXCEPT !.fn = "fetch_data_from_api",
                                 !.data_source = src]
         /\ result' = fetch_data_from_api(args.instrument, args.resolution,
                                          args.sd, args.ed, src, args.api_key)
    /\ UNCHANGED <<files, dirs, history, ncalls, pc, bi, bj, all_files>>

\* A call of download_financial_data with arguments a.
Download(a) ==
    \E r \in {download_financial_data(files, dirs, a.instrument,
                                       a.resolution, a.sd, a.ed,
                                       a.data_source, a.api_key, a.data_dir)} :
        /\ args' = a
        /\ result' = r.out
        /\ files' = r.files
        /\ dirs' = r.dirs
        /\ history' = Recorded(history, a, r.out)
        /\ ncalls' = ncalls + 1
        /\ UNCHANGED <<pc, bi, bj, all_files>>

GenDownload ==
    /\ args.fn = "none"
    /\ \E src \in {"alphavantage", "yahoo"} :
         Download([args EXCEPT !.fn = "download_financial_data",
                               !.data_source = src])

NextGen == GenCreate \/ GenFetch \/ GenDownload

SpecGen == InitGen /\ [][NextGen]_vars

(***************************************************************************)
(* Spec: up to MaxCalls calls of download_financial_data, one after the    *)
(* other, on one file system.                                              *)
(***************************************************************************)
Init ==
    /\ args = NoArgs
    /\ result = NoResult
    /\ files = NoFiles
    /\ dirs = {}
    /\ history = NoFiles
    /\ ncalls = 0
    /\ pc = "idle"
    /\ bi = 1
    /\ bj = 1
    /\ all_files = <<>>

ExportDates == {CivilFromDays(FirstDay + k) : k \in 0..1}

CallDownload ==
    /\ pc = "idle"
    /\ ncalls < MaxCalls
    /\ \E inst \in {"EURUSD", "US30"}, r \in {"1H", "1W"},
          sd \in ExportDates, ed \in ExportDates,
          src \in {"alphavantage", "yahoo"} :
         Download(Args("download_financial_data", inst, r, sd, ed, src,
                       None, "../data"))

Next == CallDownload

Spec == Init /\ [][Next]_vars

(***************************************************************************)
(* SpecBatch: download_all_assets, on a file system that an earlier        *)
(* download may have written to.                                           *)
(***************************************************************************)
PriorDownload ==
    /\ pc = "idle"
    /\ ncalls = 0
    /\ \E r \in {"1H", "1D"} :
         Download(Args("download_financial_data", "EURUSD", r,
                       batch_start_date, batch_start_date, "alphavantage",
                       None, "../data"))

\* Variant: the list is replaced instead of extended.
CollectLast(all, f) == IF f.kind = "ok" THEN <<f.value>> ELSE all

\* if f: all_files.append(f)
Collect(all, f) == IF f.kind = "ok" THEN Append(all, f.value) ELSE all

\* download_all_assets is called: all_files = [] and the loops start.
BatchCall ==
    /\ pc = "idle"
    /\ \E src \in {"alphavantage", "yahoo"}, dir \in DataDirs :
         args' = Args("download_all_assets", "", "", batch_start_date,
                      batch_end_date, src, None, dir)
    /\ result' = NoResult
    /\ pc' = "loop"
    /\ bi' = 1
    /\ bj' = 1
    /\ all_files' = <<>>
    /\ UNCHANGED <<files, dirs, history, ncalls>>

\* One pass of the inner loop body, for inst = instruments[bi] and
\* res = resolutions[bj].  An exception leaving download_financial_data
\* leaves download_all_assets too.
BatchStep ==
    /\ pc = "loop"
    /\ bi <= Len(instruments)
    /\ LET a == [args EXCEPT !.instrument = instruments[bi],
                             !.resolution = resolutions[bj]]
       IN  \E r \in {download_financial_data(files, dirs, a.instrument,
                                              a.resolution, a.sd, a.ed,
                                              a.data_source, a.api_key,
                                              a.data_dir)} :
           LET f == r.out IN
           /\ files' = r.files
           /\ dirs' = r.dirs
           /\ history' = Recorded(history, a, f)
           /\ IF Raised(f)
              THEN /\ pc' = "done"
                   /\ result' = f
                   /\ UNCHANGED <<bi, bj, all_files>>
              ELSE /\ all_files' = Collect(all_files, f)
                   /\ IF bj < Len(resolutions)
                      THEN bj' = bj + 1 /\ bi' = bi
                      ELSE bj' = 1 /\ bi' = bi + 1
                   /\ UNCHANGED <<pc, result>>
    /\ UNCHANGED <<args, ncalls>>

\* return all_files
BatchReturn ==
    /\ pc = "loop"
    /\ bi > Len(instruments)
    /\ pc' = "done"
    /\ result' = Ok(all_files)
    /\ UNCHANGED <<args, files, dirs, history, ncalls, bi, bj, all_files>>

NextBatch == PriorDownload \/ BatchCall \/ BatchStep \/ BatchReturn

SpecBatch == Init /\ [][NextBatch]_vars



(***************************************************************************)
(* Properties of the generator and the dispatcher (SpecGen)                *)
(***************************************************************************)
Same(r1, r2) == r1.kind = r2.kind /\ r1.value = r2.value

Parsable(d) == d \in ValidDates

\* The step, in minutes, that the specification gives each resolution.
StepOf(resolution) ==
    CASE resolution = "1min"  -> 1
      [] resolution = "5min"  -> 5
      [] resolution = "15min" -> 15
      [] resolution = "30min" -> 30
      [] resolution = "1H"    -> 60
      [] OTHER                -> 24 * 60

\* Midnight of the date d as the exporter prints it.
MidnightText(d) ==
    Pad4(d[1]) \o "-" \o Pad2(d[2]) \o "-" \o Pad2(d[3]) \o " 00:00"

\* C1: fetch_data_from_api never propagates an error: whatever the selector
\* and the other arguments, the call returns a series.
C1_NeverPropagates ==
    args.fn = "fetch_data_from_api" => result.kind = "ok"

C3_SeriesShape ==
    (/\ args.fn = "create_sample_data"
     /\ Parsable(args.sd) /\ Parsable(args.ed)
     /\ strptime(args.sd).value <= strptime(args.ed).value)
    => /\ result.kind = "ok"
       /\ LET rows  == result.value
              step  == StepOf(args.resolution)
              first == strptime(args.sd).value
              last  == strptime(args.ed).value
          IN  /\ Len(rows) >= 1
              /\ rows[1].timestamp = first
              /\ strftime(rows[1].timestamp) = MidnightText(args.sd)
              /\ \A k \in 1..(Len(rows) - 1) :
                   /\ rows[k].timestamp < rows[k + 1].timestamp
                   /\ rows[k + 1].timestamp = rows[k].timestamp + step
              /\ Len(rows) =
                   Cardinality({k \in 0..(last - first) :
                                  first + k * step <= last})
              /\ (args.sd = args.ed => Len(rows) = 1)

C3_Witness ==
    /\ args.fn = "create_sample_data"
    /\ args.sd # args.ed
    /\ args.resolution = "15min"
    /\ result.kind = "ok"
    /\ Len(result.value) = 24 * 4 + 1

\* The relations of C4 that hold of every row in float64 arithmetic.
RowRelations(row, i) ==
    /\ row.open = FAdd(F100, FMulInt(i, F0_1))
    /\ row.high = FAdd(row.open, F0_5)
    /\ row.low = FSub(row.open, F0_5)
    /\ row.close = FAdd(row.open, F0_2)
    /\ BLeq(row.low, row.open) /\ BLeq(row.open, row.high)
    /\ BLeq(row.low, row.close) /\ BLeq(row.close, row.high)

\* |a - b| <= d
Within(a, b, d) ==
    IF BLeq(a, b) THEN BLeq(BSub(b, a), d) ELSE BLeq(BSub(a, b), d)

C9_UnknownResolutionIsDaily ==
    (/\ args.fn # "none"
     /\ args.resolution \notin Recognized
     /\ Parsable(args.sd) /\ Parsable(args.ed))
    => LET daily == create_sample_data(args.sd, args.ed, "1D")
       IN  /\ result.kind # "raised"
           /\ args.fn \in {"create_sample_data", "fetch_data_from_api"}
                => Same(result, daily)
           /\ args.fn = "download_financial_data"
                => IF Len(daily.value) = 0 THEN result.kind = "none"
                   ELSE /\ result.kind = "ok"
                        /\ result.value \in DOMAIN files
                        /\ files[result.value].rows
                             = FormatTimestamps(daily.value)

C9_Witness ==
    /\ args.fn = "fetch_data_from_api"
    /\ args.resolution = "1W"
    /\ args.sd # args.ed
    /\ result.kind = "ok"
    /\ Len(result.value) = 2


(***************************************************************************)
(* Properties of the exporter (Spec)                                       *)
(***************************************************************************)
StartAfterEnd(a) == strptime(a.sd).value > strptime(a.ed).value

\* The rows download_financial_data exports for the arguments a.
ExportedRows(a) ==
    FormatTimestamps(create_sample_data(a.sd, a.ed, a.resolution).value)

\* {data_dir}/{instrument}_{resolution}.csv
PathText(data_dir, instrument, resolution) ==
    data_dir \o "/" \o instrument \o "_" \o resolution \o ".csv"

\* C5: a download_financial_data call whose series is empty (start_date
\* after end_date) returns None and leaves every file, the target
\* {data_dir}/{instrument}_{resolution}.csv included, as it was.
C5_EmptyWritesNothing ==
    [][(ncalls' = ncalls + 1 /\ StartAfterEnd(args'))
         => (result'.kind = "none" /\ files' = files)]_vars

C5_Witness ==
    /\ args.fn = "download_financial_data"
    /\ StartAfterEnd(args)
    /\ result.kind = "none"
    /\ TargetPath(args) \in DOMAIN files
    /\ Len(files[TargetPath(args)].rows) > 0

\* C8: every file holds exactly the header and the rows of the last series
\* that was exported to its path, whatever was written there before, and a
\* call that exports returns the path of the file it wrote.
C8_FullOverwrite ==
    /\ \A p \in DOMAIN files :
         /\ p \in DOMAIN history
         /\ files[p] = [header |-> CsvHeader,
                        rows   |-> ExportedRows(history[p][Len(history[p])])]
    /\ (args.fn = "download_financial_data" /\ result.kind = "ok")
         => /\ result.value
                 = PathText(args.data_dir, args.instrument, args.resolution)
            /\ result.value \in DOMAIN files
            /\ history[result.value][Len(history[result.value])] = args

C8_Witness ==
    \E p \in DOMAIN files :
        /\ Len(history[p]) = 2
        /\ Len(ExportedRows(history[p][1])) > Len(files[p].rows)
        /\ result.kind = "ok"
        /\ result.value = p

(***************************************************************************)
(* Properties of the batch driver (SpecBatch)                              *)
(***************************************************************************)
NumPairs == Len(instruments) * Len(resolutions)

\* The path of the k-th pair in instrument-major order.
PairPath(k) ==
    PathText(args.data_dir,
             instruments[((k - 1) \div Len(resolutions)) + 1],
             resolutions[((k - 1) % Len(resolutions)) + 1])

\* C6: download_all_assets returns exactly 3 x 5 = 15 paths, one per
\* (instrument, resolution) pair in instrument-major order, and on return
\* each of these files exists and holds at least one data row.
C6_BatchReturnsAllPaths ==
    pc = "done"
    => /\ result.kind = "ok"
       /\ NumPairs = 15
       /\ result.value = [k \in 1..NumPairs |-> PairPath(k)]
       /\ \A k \in 1..NumPairs :
            /\ PairPath(k) \in DOMAIN files
            /\ files[PairPath(k)].header = CsvHeader
            /\ Len(files[PairPath(k)].rows) >= 1

C6_Witness ==
    /\ pc = "done"
    /\ result.kind = "ok"
    /\ Len(result.value) = 15
    /\ ncalls = 1

\* C10: in one run of download_all_assets distinct (instrument, resolution)
\* pairs have distinct paths, and a file written for one pair is not
\* written again by the export of a later pair.
C10_DistinctPaths ==
    /\ [](pc # "idle" =>
            /\ \A i1, i2 \in DOMAIN instruments, j1, j2 \in DOMAIN resolutions :
                 <<i1, j1>> # <<i2, j2>>
                 => os_path_join(args.data_dir,
                                 Filename(instruments[i1], resolutions[j1]))
                    # os_path_join(args.data_dir,
                                   Filename(instruments[i2], resolutions[j2]))
            /\ \A k1, k2 \in DOMAIN all_files :
                 k1 # k2 => all_files[k1] # all_files[k2])
    /\ [][pc = "loop" =>
            \A k \in DOMAIN all_files :
               /\ files'[all_files[k]] = files[all_files[k]]
               /\ history'[all_files[k]] = history[all_files[k]]]_vars

C10_Witness ==
    /\ pc = "loop"
    /\ Len(all_files) = NumPairs - 1
    /\ \A k \in DOMAIN all_files : Len(history[all_files[k]]) <= 2
    /\ \E k \in DOMAIN all_files : Len(history[all_files[k]]) = 2

=============================================================================
